---- MODULE Spec2Model ----
(***************************************************************************)
(* Coin-Counter: the calibration module (CoinCalibration.py) appends one   *)
(* row per calibrated coin to three text files per denomination, and the   *)
(* counting module (CoinCounting.py) reads the files back, computes the    *)
(* per-denomination statistics and classifies every detected blob.         *)
(*                                                                         *)
(* Numbers.  A measured value (a colour ratio, a radius read back from a   *)
(* file) is a fixed-point number of tenths: 20 stands for 2.0.  The colour *)
(* triples of Colours are chosen so that every ratio is a whole number of  *)
(* tenths, hence exactly the float the program computes.  A statistic is   *)
(* an exact fraction [n |-> numerator, d |-> denominator] of tenths, the   *)
(* denominator being the row count coinNum.  Rounding of the float         *)
(* arithmetic is not modelled.                                              *)
(***************************************************************************)
EXTENDS Integers, Sequences, FiniteSets, TLC

VARIABLES
    files,              \* /jevois/data/<Coin>_<Kind>.txt: the lines of each file
    deleted,            \* TRUE: the old files were deleted; FALSE: emptied in place
    recorded,           \* history: the arguments of each completed writeToFile call
    writes,             \* history: the number of writeToFile calls of this run
    mode,               \* the module whose process() ran last: "none", "cal", "count"
    pc,                 \* "idle", "loop" (inside the blob loop), "sent", "raised"
    err,                \* the exception that ended the frame: [kind, line]
    nrOfBlobs,          \* len(keypoints) of the frame
    x,                  \* the blob loop's index: blobs processed so far
    blob,               \* the keypoint the loop took last
    coin,               \* calibration: the coin name drawn for the last blob ("" none)
    im_with_keypoints,  \* whether the local im_with_keypoints is bound
    stats,              \* counting: pennyValues, nickelValues, dimeValues, quarterValues
    pennyNum, nickelNum, dimeNum, quarterNum,
    totalVal,           \* <<>> until line 352 computes it, then <<cents>>
    sent                \* <<>>, or <<the tally drawn on the frame handed to sendCvBGR>>

vars == <<files, deleted, recorded, writes, mode, pc, err, nrOfBlobs, x, blob, coin,
          im_with_keypoints, stats, pennyNum, nickelNum, dimeNum, quarterNum,
          totalVal, sent>>

(***************************************************************************)
(* Bounds of the model.                                                    *)
(***************************************************************************)
\* writeToFile calls of a run, over all denominations
MaxRows == 2
\* blobs the detector returns for one frame
MaxBlobs == 2

\* radii np.int(keypoint.size/2), in pixels, of the coins laid out for
\* calibration, and of the blobs of a counting frame
Radii == {7, 11}
CountRadii == {8, 9, 10, 11, 14}
\* mean <<red, green, blue>> under the sampling mask: a silver coin, a copper
\* coin, a region with no green, a region with no blue
Silver == <<4, 2, 1>>
Copper == <<3, 2, 1>>
NoGreen == <<4, 0, 1>>
NoBlue == <<4, 2, 0>>
Colours == {Silver, Copper, NoGreen, NoBlue}
\* what a calibration frame may show: the coin asked for on each marker (the
\* penny is the copper one), a coin off every marker, a colourless region on
\* a marker, and a coin between the second and the third marker
Placements ==
    {[pt |-> <<100, 200>>, colour |-> Silver],
     [pt |-> <<240, 200>>, colour |-> Copper],
     [pt |-> <<380, 200>>, colour |-> Silver],
     [pt |-> <<520, 200>>, colour |-> Silver],
     [pt |-> <<240, 300>>, colour |-> Copper],
     [pt |-> <<100, 200>>, colour |-> NoGreen],
     [pt |-> <<380, 200>>, colour |-> NoBlue],
     [pt |-> <<311, 200>>, colour |-> Copper]}

Coins == {"Dime", "Penny", "Nickel", "Quarter"}
Kinds == {"RG", "RB", "Radius"}

(***************************************************************************)
(* Arithmetic helpers.                                                     *)
(***************************************************************************)
Abs(a) == IF a < 0 THEN -a ELSE a

\* math.sqrt on a non-negative numerator: the largest s with s*s <= a
ISqrt(a) == CHOOSE s \in 0..a : s * s <= a /\ (s + 1) * (s + 1) > a

Frac(n, d) == [n |-> n, d |-> d]
\* comparisons and differences of fractions with positive denominators
FracEq(a, b) == a.n * b.d = b.n * a.d
FracGt(a, b) == a.n * b.d > b.n * a.d
FracLt(a, b) == a.n * b.d < b.n * a.d
FracSub(a, b) == Frac(a.n * b.d - b.n * a.d, a.d * b.d)
FracAbs(a) == Frac(Abs(a.n), a.d)

RECURSIVE SumSeq(_)
SumSeq(s) == IF s = <<>> THEN 0 ELSE Head(s) + SumSeq(Tail(s))

(***************************************************************************)
(* Text of the calibration files: str() on writing, float() on reading.    *)
(***************************************************************************)
DigitChars == <<"0", "1", "2", "3", "4", "5", "6", "7", "8", "9">>
DigitVal(c) == CHOOSE d \in 0..9 : DigitChars[d + 1] = c

\* str(radius): the decimal digits of an int
RECURSIVE StrInt(_)
StrInt(n) ==
    IF n < 10 THEN <<DigitChars[n + 1]>>
    ELSE Append(StrInt(n \div 10), DigitChars[(n % 10) + 1])

\* Variant of str(ratio): the ratio formatted as an integer, "%d" % ratio
StrFloatAsInt(v) == StrInt(v \div 10)

\* str(ratio) of a float of v tenths: "2.0", "1.5"
StrFloat(v) == StrInt(v \div 10) \o <<".", DigitChars[(v % 10) + 1]>>

RECURSIVE ParseInt(_)
ParseInt(s) ==
    IF s = <<>> THEN 0
    ELSE ParseInt(SubSeq(s, 1, Len(s) - 1)) * 10 + DigitVal(s[Len(s)])

\* float(line), in tenths: "8" is 80, "1.5" is 15
Float(line) ==
    LET dots == {i \in 1..Len(line) : line[i] = "."}
    IN  IF dots = {} THEN ParseInt(line) * 10
        ELSE LET p == CHOOSE i \in dots : TRUE
             IN  ParseInt(SubSeq(line, 1, p - 1)) * 10
                 + (IF p < Len(line) THEN DigitVal(line[p + 1]) ELSE 0)

\* red/green and the like on the channel means, in tenths
TrueDiv(a, b) == (a * 10) \div b

(***************************************************************************)
(* CoinCalibration.py                                                      *)
(***************************************************************************)
xVal == 80
yVal == 300
xDelta == 140
yDelta == -100

\* where the "X" of marker i is drawn
MarkerAt(i) == <<xVal + i * xDelta + 20, yVal + yDelta>>

printCoinType(type) ==
    IF type = 0 THEN "Dime"
    ELSE IF type = 1 THEN "Penny"
    ELSE IF type = 2 THEN "Nickel"
    ELSE "Quarter"

\* Variant of writeToFile: the files opened with "w" instead of "a"
writeToFileTruncating(f, ratioRG, ratioRB, radius, c, fail) ==
    LET wrote(k) == fail = 0 \/ k < fail
    IN  [f EXCEPT ![c] =
            [RG     |-> IF wrote(1) THEN <<StrFloat(ratioRG)>> ELSE f[c].RG,
             RB     |-> IF wrote(2) THEN <<StrFloat(ratioRB)>> ELSE f[c].RB,
             Radius |-> IF wrote(3) THEN <<StrInt(radius)>> ELSE f[c].Radius]]

\* Variant of writeToFile: the append to the RB file left out
writeToFileWithoutRB(f, ratioRG, ratioRB, radius, c, fail) ==
    LET wrote(k) == fail = 0 \/ k < fail
    IN  [f EXCEPT ![c] =
            [RG     |-> IF wrote(1) THEN Append(f[c].RG, StrFloat(ratioRG))
                        ELSE f[c].RG,
             RB     |-> f[c].RB,
             Radius |-> IF wrote(3) THEN Append(f[c].Radius, StrInt(radius))
                        ELSE f[c].Radius]]

\* The three appends of writeToFile.  fail = 0: every open() succeeds; fail = k:
\* the k-th open() raises OSError, after the earlier files got their line.
writeToFile(f, ratioRG, ratioRB, radius, c, fail) ==
    LET wrote(k) == fail = 0 \/ k < fail
    IN  [f EXCEPT ![c] =
            [RG     |-> IF wrote(1) THEN Append(f[c].RG, StrFloat(ratioRG))
                        ELSE f[c].RG,
             RB     |-> IF wrote(2) THEN Append(f[c].RB, StrFloat(ratioRB))
                        ELSE f[c].RB,
             Radius |-> IF wrote(3) THEN Append(f[c].Radius, StrInt(radius))
                        ELSE f[c].Radius]]

\* Variant of the marker loop: a blob that matches no marker falls to the last
RECURSIVE markerLoopFallsToLast(_, _, _, _, _)
markerLoopFallsToLast(i, circleCenterXCoord, circleCenterYCoord, targetXVal, targetYVal) ==
    IF i = 4 THEN 3
    ELSE IF /\ 10 * Abs(circleCenterXCoord - targetXVal) < 3 * targetXVal
            /\ 10 * Abs(circleCenterYCoord - targetYVal) < 3 * targetYVal
         THEN i
         ELSE markerLoopFallsToLast(i + 1, circleCenterXCoord, circleCenterYCoord,
                                    targetXVal + xDelta, targetYVal)

\* Variant of the marker loop: the markers tested from right to left
markerLoopRightToLeft(i, circleCenterXCoord, circleCenterYCoord, targetXVal, targetYVal) ==
    LET hits == {j \in i..3 :
                    /\ 10 * Abs(circleCenterXCoord - (targetXVal + (j - i) * xDelta))
                           < 3 * (targetXVal + (j - i) * xDelta)
                    /\ 10 * Abs(circleCenterYCoord - targetYVal) < 3 * targetYVal}
    IN  IF hits = {} THEN 4 ELSE CHOOSE j \in hits : \A k \in hits : k <= j

\* The marker loop of detectCoinType: the first marker i, left to right, whose
\* x and y are both within 30% of the marker's own coordinate; 4 when none is.
RECURSIVE markerLoop(_, _, _, _, _)
markerLoop(i, circleCenterXCoord, circleCenterYCoord, targetXVal, targetYVal) ==
    IF i = 4 THEN 4
    ELSE IF /\ 10 * Abs(circleCenterXCoord - targetXVal) < 3 * targetXVal
            /\ 10 * Abs(circleCenterYCoord - targetYVal) < 3 * targetYVal
         THEN i
         ELSE markerLoop(i + 1, circleCenterXCoord, circleCenterYCoord,
                         targetXVal + xDelta, targetYVal)

detectCoinType(circleCenterXCoord, circleCenterYCoord) ==
    markerLoop(0, circleCenterXCoord, circleCenterYCoord, xVal + 20, yVal + yDelta)

(***************************************************************************)
(* CoinCounting.py                                                         *)
(***************************************************************************)
NoErr == [kind |-> "", line |-> 0]
Raise(kind, line) == [kind |-> kind, line |-> line]

\* open(..., "r") finds the file: it was never deleted, or a line was appended
FileExists(f, del, c, k) == ~del \/ Len(f[c][k]) > 0

\* the running sum of float(line), and of float(line)*float(line), over a file
LineSum(lines) == SumSeq([i \in 1..Len(lines) |-> Float(lines[i])])
LineSqSum(lines) == SumSeq([i \in 1..Len(lines) |-> Float(lines[i]) * Float(lines[i])])

\* Variant of the statistics block: the sums of an empty RG file are divided by
\* 1 instead of coinNum = 0
statisticsZeroWhenEmpty(coinNum, rgSum, rgSqSum, rbSum, rbSqSum, radiusSum, radiusSqSum, hasRG, hasRB, hasRadius) ==
    LET n          == IF coinNum = 0 THEN 1 ELSE coinNum
        varianceRG == n * rgSqSum - rgSum * rgSum
        varianceRB == n * rbSqSum - rbSum * rbSum
        variance   == n * radiusSqSum - radiusSum * radiusSum
        raised(e)  == [err |-> e, values |-> <<>>]
    IN  IF ~hasRG THEN raised(Raise("FileNotFoundError", 128))
        ELSE IF varianceRG < 0 THEN raised(Raise("ValueError", 140))
        ELSE IF ~hasRB THEN raised(Raise("FileNotFoundError", 143))
        ELSE IF varianceRB < 0 THEN raised(Raise("ValueError", 154))
        ELSE IF ~hasRadius THEN raised(Raise("FileNotFoundError", 157))
        ELSE IF variance < 0 THEN raised(Raise("ValueError", 168))
        ELSE [err |-> NoErr,
              values |-> [radiusAvg           |-> Frac(radiusSum, n),
                          rgAvg               |-> Frac(rgSum, n),
                          rbAvg               |-> Frac(rbSum, n),
                          standardDeviation   |-> Frac(ISqrt(variance), n),
                          standardDeviationRG |-> Frac(ISqrt(varianceRG), n),
                          standardDeviationRB |-> Frac(ISqrt(varianceRB), n)]]

\* Variant of the statistics block: the sample variance, the mean of the
\* squares taken over coinNum - 1 rows
statisticsSampleVariance(coinNum, rgSum, rgSqSum, rbSum, rbSqSum, radiusSum, radiusSqSum, hasRG, hasRB, hasRadius) ==
    LET m          == IF coinNum > 1 THEN coinNum - 1 ELSE 1
        varianceRG == coinNum * coinNum * rgSqSum - m * rgSum * rgSum
        varianceRB == coinNum * coinNum * rbSqSum - m * rbSum * rbSum
        variance   == coinNum * coinNum * radiusSqSum - m * radiusSum * radiusSum
        raised(e)  == [err |-> e, values |-> <<>>]
    IN  IF ~hasRG THEN raised(Raise("FileNotFoundError", 128))
        ELSE IF coinNum = 0 THEN raised(Raise("ZeroDivisionError", 137))
        ELSE IF ~hasRB THEN raised(Raise("FileNotFoundError", 143))
        ELSE IF ~hasRadius THEN raised(Raise("FileNotFoundError", 157))
        ELSE [err |-> NoErr,
              values |-> [radiusAvg           |-> Frac(radiusSum, coinNum),
                          rgAvg               |-> Frac(rgSum, coinNum),
                          rbAvg               |-> Frac(rbSum, coinNum),
                          standardDeviation   |-> Frac(ISqrt(variance), coinNum * m),
                          standardDeviationRG |-> Frac(ISqrt(varianceRG), coinNum * m),
                          standardDeviationRB |-> Frac(ISqrt(varianceRB), coinNum * m)]]

\* The statistics block of coinValues once the three files are summed: rgSum,
\* rgSqSum and coinNum from the RG file, the other sums from theirs.  avg is
\* sum/coinNum, the fraction Frac(sum, coinNum); the variance
\* sqSum/coinNum - avg*avg is (coinNum*sqSum - sum*sum)/coinNum^2, and math.sqrt
\* of it raises ValueError when it is negative.  An open() of a missing file
\* raises FileNotFoundError.
computedStatistics(coinNum, rgSum, rgSqSum, rbSum, rbSqSum, radiusSum, radiusSqSum, hasRG, hasRB, hasRadius) ==
    LET varianceRG == coinNum * rgSqSum - rgSum * rgSum
        varianceRB == coinNum * rbSqSum - rbSum * rbSum
        variance   == coinNum * radiusSqSum - radiusSum * radiusSum
        raised(e)  == [err |-> e, values |-> <<>>]
    IN  IF ~hasRG THEN raised(Raise("FileNotFoundError", 128))
        ELSE IF coinNum = 0 THEN raised(Raise("ZeroDivisionError", 137))
        ELSE IF varianceRG < 0 THEN raised(Raise("ValueError", 140))
        ELSE IF ~hasRB THEN raised(Raise("FileNotFoundError", 143))
        ELSE IF varianceRB < 0 THEN raised(Raise("ValueError", 154))
        ELSE IF ~hasRadius THEN raised(Raise("FileNotFoundError", 157))
        ELSE IF variance < 0 THEN raised(Raise("ValueError", 168))
        ELSE [err |-> NoErr,
              values |-> [radiusAvg           |-> Frac(radiusSum, coinNum),
                          rgAvg               |-> Frac(rgSum, coinNum),
                          rbAvg               |-> Frac(rbSum, coinNum),
                          standardDeviation   |-> Frac(ISqrt(variance), coinNum),
                          standardDeviationRG |-> Frac(ISqrt(varianceRG), coinNum),
                          standardDeviationRB |-> Frac(ISqrt(varianceRB), coinNum)]]

\* coinValues(coin): the six statistics of a denomination, or the exception
\* raised on the way
coinValues(f, del, c) ==
    computedStatistics(Len(f[c].RG),
                       LineSum(f[c].RG), LineSqSum(f[c].RG),
                       LineSum(f[c].RB), LineSqSum(f[c].RB),
                       LineSum(f[c].Radius), LineSqSum(f[c].Radius),
                       FileExists(f, del, c, "RG"), FileExists(f, del, c, "RB"),
                       FileExists(f, del, c, "Radius"))

\* abs(a - b)/b < 0.15 on two mean radii; numpy's division by a zero mean gives
\* inf or nan, and the comparison is then false
Within15(a, b) ==
    /\ b.n # 0
    /\ FracLt(FracAbs(FracSub(a, b)), Frac(15 * b.n, 100 * b.d))

\* Lines 295-303: between the nickel and the quarter mean, the nearer mean radius
nickelOrQuarter(r, n0, q0) ==
    IF FracGt(FracSub(q0, r), FracSub(r, n0)) THEN "N" ELSE "Q"

\* Lines 309-325: between the penny and the nickel mean, by R:G ratio when the
\* two mean radii are within 15%, else by the nearer mean radius
nickelOrPenny(r, rg, p0, p1, n0, n1) ==
    IF Within15(n0, p0) THEN
        IF FracGt(FracAbs(FracSub(n1, rg)), FracAbs(FracSub(p1, rg))) THEN "P" ELSE "N"
    ELSE IF FracGt(FracSub(n0, r), FracSub(r, p0)) THEN "P" ELSE "N"

\* Lines 328-349: at or under the penny mean
dimeOrPenny(r, rg, d0, d1, p0, p1) ==
    IF FracLt(r, d0) THEN "D"
    ELSE IF Within15(d0, p0) THEN
        IF FracGt(FracAbs(FracSub(p1, rg)), FracAbs(FracSub(d1, rg))) THEN "D" ELSE "P"
    ELSE IF FracGt(FracSub(r, d0), FracSub(p0, r)) THEN "P" ELSE "D"

\* The decision cascade of process(), lines 287-349: the letter drawn on the
\* blob.  The radius is in pixels, the ratio in tenths.
classify(radius, ratioRG, pennyValues, nickelValues, dimeValues, quarterValues) ==
    LET r  == Frac(radius * 10, 1)
        rg == Frac(ratioRG, 1)
        q0 == quarterValues.radiusAvg
        n0 == nickelValues.radiusAvg
        p0 == pennyValues.radiusAvg
        d0 == dimeValues.radiusAvg
        n1 == nickelValues.rgAvg
        p1 == pennyValues.rgAvg
        d1 == dimeValues.rgAvg
    IN  IF FracGt(r, q0) THEN "Q"
        ELSE IF FracGt(r, n0) THEN nickelOrQuarter(r, n0, q0)
        ELSE IF FracGt(r, p0) THEN nickelOrPenny(r, rg, p0, p1, n0, n1)
        ELSE dimeOrPenny(r, rg, d0, d1, p0, p1)

\* totalVal of line 352, in cents
total(pennies, nickels, dimes, quarters) ==
    pennies * 1 + dimes * 10 + nickels * 5 + quarters * 25

(***************************************************************************)
(* The frames.  process() of either module runs from a finished frame to   *)
(* its blob loop, then one blob per step to the frame's end.               *)
(***************************************************************************)
LoadOrder == <<"Penny", "Nickel", "Dime", "Quarter">>
NoStats == [c \in Coins |-> <<>>]
NoFiles == [c \in Coins |-> [RG |-> <<>>, RB |-> <<>>, Radius |-> <<>>]]

\* An earlier session's calibration: one coin of each denomination
Calibrated ==
    [c \in Coins |->
        [RG     |-> <<IF c = "Penny" THEN StrFloat(TrueDiv(Copper[1], Copper[2]))
                      ELSE StrFloat(TrueDiv(Silver[1], Silver[2]))>>,
         RB     |-> <<IF c = "Penny" THEN StrFloat(TrueDiv(Copper[1], Copper[3]))
                      ELSE StrFloat(TrueDiv(Silver[1], Silver[3]))>>,
         Radius |-> <<StrInt(CASE c = "Dime" -> 8 [] c = "Penny" -> 9
                               [] c = "Nickel" -> 10 [] OTHER -> 13)>>]]

FrameOver == pc \in {"idle", "sent", "raised"}

Init ==
    /\ \/ files = NoFiles /\ deleted \in BOOLEAN
       \/ files = Calibrated /\ deleted = TRUE
    /\ recorded = [c \in Coins |-> <<>>]
    /\ writes = 0
    /\ mode = "none"
    /\ pc = "idle"
    /\ err = NoErr
    /\ nrOfBlobs = 0
    /\ x = 0
    /\ blob = <<>>
    /\ coin = ""
    /\ im_with_keypoints = FALSE
    /\ stats = NoStats
    /\ pennyNum = 0
    /\ nickelNum = 0
    /\ dimeNum = 0
    /\ quarterNum = 0
    /\ totalVal = <<>>
    /\ sent = <<>>

\* the locals of a counting frame, as a calibration frame leaves them: unset
NoCounting ==
    /\ stats' = NoStats
    /\ pennyNum' = 0
    /\ nickelNum' = 0
    /\ dimeNum' = 0
    /\ quarterNum' = 0
    /\ totalVal' = <<>>
    /\ sent' = <<>>

\* CoinCalibration.process up to the blob loop: n blobs detected, the image
\* with the keypoints drawn.  With no blob the frame is labelled and sent.
CalBegin(n) ==
    /\ FrameOver
    /\ mode' = "cal"
    /\ nrOfBlobs' = n
    /\ x' = 0
    /\ blob' = <<>>
    /\ coin' = ""
    /\ im_with_keypoints' = TRUE
    /\ err' = NoErr
    /\ pc' = IF n = 0 THEN "sent" ELSE "loop"
    /\ NoCounting
    /\ UNCHANGED <<files, deleted, recorded, writes>>

\* One pass of the blob loop of CoinCalibration.process: detectCoinType on the
\* next keypoint.  A blob at no marker is passed over.  A blob at a marker is
\* sampled (a zero green or blue mean raises ZeroDivisionError), written to the
\* marker's three files (an open() may raise OSError) and labelled.  After the
\* last blob the frame is sent.
CalBlob ==
    /\ pc = "loop"
    /\ mode = "cal"
    /\ \E p \in Placements, radius \in Radii :
        LET type  == detectCoinType(p.pt[1], p.pt[2])
            red   == p.colour[1]
            green == p.colour[2]
            blue  == p.colour[3]
            last  == x + 1 = nrOfBlobs
        IN  /\ blob' = [pt |-> p.pt, colour |-> p.colour, radius |-> radius]
            /\ IF type = 4 THEN
                   /\ coin' = ""
                   /\ x' = x + 1
                   /\ pc' = IF last THEN "sent" ELSE "loop"
                   /\ err' = NoErr
                   /\ UNCHANGED <<files, recorded, writes>>
               ELSE IF green = 0 \/ blue = 0 THEN
                   /\ coin' = ""
                   /\ x' = x
                   /\ pc' = "raised"
                   /\ err' = Raise("ZeroDivisionError", IF green = 0 THEN 217 ELSE 218)
                   /\ UNCHANGED <<files, recorded, writes>>
               ELSE \E fail \in 0..3 :
                   LET ratioRG == TrueDiv(red, green)
                       ratioRB == TrueDiv(red, blue)
                       c       == printCoinType(type)
                   IN  /\ writes < MaxRows
                       /\ writes' = writes + 1
                       /\ files' = writeToFile(files, ratioRG, ratioRB, radius, c, fail)
                       /\ recorded' = IF fail # 0 THEN recorded
                                      ELSE [recorded EXCEPT ![c] = Append(@,
                                               [ratioRG |-> ratioRG, ratioRB |-> ratioRB,
                                                radius |-> radius])]
                       /\ IF fail = 0 THEN
                              /\ coin' = c
                              /\ x' = x + 1
                              /\ pc' = IF last THEN "sent" ELSE "loop"
                              /\ err' = NoErr
                          ELSE
                              /\ coin' = ""
                              /\ x' = x
                              /\ pc' = "raised"
                              /\ err' = Raise("OSError",
                                     IF fail = 1 THEN 163 ELSE IF fail = 2 THEN 167 ELSE 171)
    /\ UNCHANGED <<deleted, mode, nrOfBlobs, im_with_keypoints, stats, pennyNum,
                   nickelNum, dimeNum, quarterNum, totalVal, sent>>

\* The end of CoinCounting.process, lines 351-371: the total, then the tally
\* drawn on im_with_keypoints and sent.  Drawing on the unbound local raises.
countTail(pennies, nickels, dimes, quarters, bound) ==
    LET t == total(pennies, nickels, dimes, quarters)
    IN  IF bound
        THEN [pc |-> "sent", err |-> NoErr, totalVal |-> <<t>>,
              sent |-> <<[totalVal |-> t, pennies |-> pennies, nickels |-> nickels,
                          dimes |-> dimes, quarters |-> quarters]>>]
        ELSE [pc |-> "raised", err |-> Raise("UnboundLocalError", 356),
              totalVal |-> <<t>>, sent |-> <<>>]

\* CoinCounting.process up to the blob loop: n blobs detected, then the four
\* coinValues calls in the order Penny, Nickel, Dime, Quarter (the first that
\* raises ends the frame), then the four counts set to 0.  Nothing binds
\* im_with_keypoints: the drawKeypoints call is commented out (lines 234-236).
CountBegin ==
    /\ FrameOver
    /\ mode' = "count"
    /\ x' = 0
    /\ blob' = <<>>
    /\ coin' = ""
    /\ im_with_keypoints' = FALSE
    /\ pennyNum' = 0
    /\ nickelNum' = 0
    /\ dimeNum' = 0
    /\ quarterNum' = 0
    /\ \E got \in {<<coinValues(files, deleted, "Penny"),
                      coinValues(files, deleted, "Nickel"),
                      coinValues(files, deleted, "Dime"),
                      coinValues(files, deleted, "Quarter")>>}, n \in 0..MaxBlobs :
        LET failed == {i \in 1..4 : got[i].err # NoErr}
            first  == IF failed = {} THEN 5
                      ELSE CHOOSE i \in failed : \A j \in failed : i <= j
            tail   == countTail(0, 0, 0, 0, FALSE)
        IN  /\ nrOfBlobs' = n
            /\ stats' = [Penny   |-> IF 1 < first THEN got[1].values ELSE <<>>,
                         Nickel  |-> IF 2 < first THEN got[2].values ELSE <<>>,
                         Dime    |-> IF 3 < first THEN got[3].values ELSE <<>>,
                         Quarter |-> IF 4 < first THEN got[4].values ELSE <<>>]
            /\ IF first <= 4 THEN
                   /\ pc' = "raised"
                   /\ err' = got[first].err
                   /\ totalVal' = <<>>
                   /\ sent' = <<>>
               ELSE IF n = 0 THEN
                   /\ pc' = tail.pc
                   /\ err' = tail.err
                   /\ totalVal' = tail.totalVal
                   /\ sent' = tail.sent
               ELSE
                   /\ pc' = "loop"
                   /\ err' = NoErr
                   /\ totalVal' = <<>>
                   /\ sent' = <<>>
    /\ UNCHANGED <<files, deleted, recorded, writes>>

\* One pass of the blob loop of CoinCounting.process.  Line 260 draws the blob's
\* circle on im_with_keypoints: unbound, it raises.  Bound, the blob is sampled
\* (a zero green mean raises ZeroDivisionError), classified and counted, and
\* after the last blob the tally is drawn and sent.
CountBlob ==
    /\ pc = "loop"
    /\ mode = "count"
    /\ \E radius \in CountRadii, colour \in Colours :
        LET red   == colour[1]
            green == colour[2]
            last  == x + 1 = nrOfBlobs
        IN  /\ blob' = [radius |-> radius, colour |-> colour]
            /\ IF ~im_with_keypoints THEN
                   /\ pc' = "raised"
                   /\ err' = Raise("UnboundLocalError", 260)
                   /\ UNCHANGED <<x, pennyNum, nickelNum, dimeNum, quarterNum,
                                  totalVal, sent>>
               ELSE IF green = 0 THEN
                   /\ pc' = "raised"
                   /\ err' = Raise("ZeroDivisionError", 280)
                   /\ UNCHANGED <<x, pennyNum, nickelNum, dimeNum, quarterNum,
                                  totalVal, sent>>
               ELSE
                   LET letter == classify(radius, TrueDiv(red, green), stats["Penny"],
                                     stats["Nickel"], stats["Dime"], stats["Quarter"])
                       p == pennyNum + (IF letter = "P" THEN 1 ELSE 0)
                       n == nickelNum + (IF letter = "N" THEN 1 ELSE 0)
                       d == dimeNum + (IF letter = "D" THEN 1 ELSE 0)
                       q == quarterNum + (IF letter = "Q" THEN 1 ELSE 0)
                       tail == countTail(p, n, d, q, TRUE)
                   IN  /\ pennyNum' = p
                       /\ nickelNum' = n
                       /\ dimeNum' = d
                       /\ quarterNum' = q
                       /\ x' = x + 1
                       /\ pc' = IF last THEN tail.pc ELSE "loop"
                       /\ err' = IF last THEN tail.err ELSE NoErr
                       /\ totalVal' = IF last THEN tail.totalVal ELSE <<>>
                       /\ sent' = IF last THEN tail.sent ELSE <<>>
    /\ UNCHANGED <<files, deleted, recorded, writes, mode, nrOfBlobs, coin,
                   im_with_keypoints, stats>>

Next ==
    \/ \E n \in 0..MaxBlobs : CalBegin(n)
    \/ CalBlob
    \/ CountBegin
    \/ CountBlob

Spec == Init /\ [][Next]_vars

(***************************************************************************)
(* Properties.                                                             *)
(***************************************************************************)
\* a step from here is one pass of the blob loop of CoinCounting.process; the
\* blob it takes is blob'
CountPass == mode = "count" /\ pc = "loop"

\* the pass counts its blob as the coin of this letter and as nothing else
Decided(letter) ==
    /\ pennyNum' = pennyNum + (IF letter = "P" THEN 1 ELSE 0)
    /\ nickelNum' = nickelNum + (IF letter = "N" THEN 1 ELSE 0)
    /\ dimeNum' = dimeNum + (IF letter = "D" THEN 1 ELSE 0)
    /\ quarterNum' = quarterNum + (IF letter = "Q" THEN 1 ELSE 0)

\* the blob's green mean is not zero, so its R:G ratio exists
HasRatio(b) == b.colour[2] # 0
RadiusOf(b) == Frac(b.radius * 10, 1)
RatioRGOf(b) == Frac(TrueDiv(b.colour[1], b.colour[2]), 1)

\* every file of every denomination holds at least one line
AllCalibrated == \A c \in Coins, k \in Kinds : Len(files[c][k]) > 0

IsPrefix(s, t) == Len(s) <= Len(t) /\ SubSeq(t, 1, Len(s)) = s

\* C1: in a counting frame, a blob whose radius is strictly greater than the
\* Quarter mean radius is counted as a Quarter: quarterNum goes up by one and
\* no other count changes, whatever its colour ratio and the other statistics.
C1_QuarterAboveMean ==
    [][(/\ CountPass
        /\ HasRatio(blob')
        /\ FracGt(RadiusOf(blob'), stats["Quarter"].radiusAvg))
       => Decided("Q")]_vars

\* C2: the radius tests are strict.  A blob whose radius equals the Nickel mean
\* and does not exceed the Quarter mean is decided by the steps after the
\* nickel-versus-quarter comparison; a blob whose radius equals the Penny mean
\* and exceeds neither the Nickel nor the Quarter mean is decided by the
\* dime/penny steps.
C2_BoundaryTakesElse ==
    [][(CountPass /\ HasRatio(blob')) =>
        LET r  == RadiusOf(blob')
            rg == RatioRGOf(blob')
            q0 == stats["Quarter"].radiusAvg
            n0 == stats["Nickel"].radiusAvg
            p0 == stats["Penny"].radiusAvg
            d0 == stats["Dime"].radiusAvg
            n1 == stats["Nickel"].rgAvg
            p1 == stats["Penny"].rgAvg
            d1 == stats["Dime"].rgAvg
        IN  /\ (FracEq(r, n0) /\ ~FracGt(r, q0)) =>
                   Decided(IF FracGt(r, p0) THEN nickelOrPenny(r, rg, p0, p1, n0, n1)
                           ELSE dimeOrPenny(r, rg, d0, d1, p0, p1))
            /\ (FracEq(r, p0) /\ ~FracGt(r, n0) /\ ~FracGt(r, q0)) =>
                   Decided(dimeOrPenny(r, rg, d0, d1, p0, p1))]_vars

\* C3: a blob above the Penny mean radius and at most the Nickel and Quarter
\* means, when the Nickel and Penny mean radii are within 15% of the Penny
\* mean, is counted as a Penny when its R:G ratio is strictly closer to the
\* Penny mean ratio than to the Nickel mean ratio, and as a Nickel otherwise.
C3_CloserRatioWins ==
    [][(CountPass /\ HasRatio(blob')) =>
        LET r  == RadiusOf(blob')
            rg == RatioRGOf(blob')
            q0 == stats["Quarter"].radiusAvg
            n0 == stats["Nickel"].radiusAvg
            p0 == stats["Penny"].radiusAvg
            n1 == stats["Nickel"].rgAvg
            p1 == stats["Penny"].rgAvg
        IN  (/\ FracGt(r, p0)
             /\ ~FracGt(r, n0)
             /\ ~FracGt(r, q0)
             /\ Within15(n0, p0)) =>
                Decided(IF FracLt(FracAbs(FracSub(p1, rg)), FracAbs(FracSub(n1, rg)))
                        THEN "P" ELSE "N")]_vars

\* C4: a blob above the Nickel mean radius and at most the Quarter mean is
\* counted as a Nickel when the Quarter mean is farther from its radius than
\* the Nickel mean is, and as a Quarter otherwise, a tie included.
C4_NearerOfNickelQuarter ==
    [][(CountPass /\ HasRatio(blob')) =>
        LET r  == RadiusOf(blob')
            q0 == stats["Quarter"].radiusAvg
            n0 == stats["Nickel"].radiusAvg
        IN  (FracGt(r, n0) /\ ~FracGt(r, q0)) =>
                Decided(IF FracGt(FracSub(q0, r), FracSub(r, n0)) THEN "N" ELSE "Q")]_vars

\* C5: the files only grow at their end, whatever frames run (every file's
\* earlier content is a prefix of its later content), and no step of a
\* counting frame changes any file.
C5_AppendOnlyReadOnly ==
    [][/\ \A c \in Coins, k \in Kinds : IsPrefix(files[c][k], files'[c][k])
       /\ mode' = "count" => files' = files]_vars

\* a counting frame ran after calibration appended a row to a file that
\* already held one
C5_Witness ==
    /\ mode = "count"
    /\ FrameOver
    /\ \E c \in Coins :
        /\ Len(recorded[c]) > 0
        /\ \A k \in Kinds : Len(files[c][k]) >= 2

\* C6: a counting frame that finds no blob, every denomination being
\* calibrated, completes: it sends the tally with the four counts 0 and the
\* total 0.
C6_ZeroBlobsTally ==
    (mode = "count" /\ FrameOver /\ nrOfBlobs = 0 /\ AllCalibrated) =>
        /\ pc = "sent"
        /\ sent = <<[totalVal |-> 0, pennies |-> 0, nickels |-> 0, dimes |-> 0,
                     quarters |-> 0]>>

\* C7: in a counting frame every blob adds one to the count of the coin the
\* cascade classifies it as, and to no other count, and after the last blob
\* the total is 1*pennies + 5*nickels + 10*dimes + 25*quarters cents.
C7_CountsAndTotal ==
    [][(CountPass /\ HasRatio(blob')) =>
        /\ Decided(classify(blob'.radius, TrueDiv(blob'.colour[1], blob'.colour[2]),
                            stats["Penny"], stats["Nickel"], stats["Dime"],
                            stats["Quarter"]))
        /\ x + 1 = nrOfBlobs =>
               totalVal' = <<pennyNum' + 5 * nickelNum' + 10 * dimeNum'
                             + 25 * quarterNum'>>]_vars

\* the denominations whose statistics the frame did not get, and the first of
\* them in the order of the four coinValues calls
Unloaded == {i \in 1..4 : stats[LoadOrder[i]] = <<>>}
FirstUnloaded == CHOOSE i \in Unloaded : \A j \in Unloaded : i <= j

\* C8: a counting frame that meets a denomination with no calibration row gets
\* no statistic for it: coinValues raises (the RG file is missing, or the sum
\* is divided by a row count of zero), the frame ends there, and no total is
\* computed and no tally sent.
C8_EmptyDatasetFails ==
    (mode = "count" /\ \E c \in Coins : Len(files[c].RG) = 0) =>
        /\ pc = "raised"
        /\ totalVal = <<>>
        /\ sent = <<>>
        /\ \A c \in Coins : Len(files[c].RG) = 0 => stats[c] = <<>>
        /\ Len(files[LoadOrder[FirstUnloaded]].RG) = 0 =>
               err = IF deleted THEN Raise("FileNotFoundError", 128)
                     ELSE Raise("ZeroDivisionError", 137)

\* the statistics of Penny and Nickel were computed, then Dime had no row
C8_Witness ==
    /\ mode = "count"
    /\ stats["Penny"] # <<>>
    /\ stats["Nickel"] # <<>>
    /\ files["Dime"].RG = <<>>
    /\ err = Raise("ZeroDivisionError", 137)

\* the counting frame called coinValues(c): no earlier call raised
Called(c) ==
    /\ mode = "count"
    /\ \A i \in 1..4 : (\E j \in i + 1..4 : LoadOrder[j] = c) => stats[LoadOrder[i]] # <<>>

\* the files of c hold one row, the one calibration recorded, and a counting
\* frame called coinValues(c)
OneRowLoaded(c) ==
    /\ Called(c)
    /\ Len(recorded[c]) = 1
    /\ \A k \in Kinds : Len(files[c][k]) = 1

\* C9: when calibration wrote one row (ratioRG, ratioRB, radius) to the empty
\* files of a denomination, the statistics counting computes for it are the
\* row's own values as the three means and 0 as the three standard deviations.
C9_RoundTrip ==
    \A c \in Coins : OneRowLoaded(c) =>
        /\ stats[c] # <<>>
        /\ FracEq(stats[c].radiusAvg, Frac(recorded[c][1].radius * 10, 1))
        /\ FracEq(stats[c].rgAvg, Frac(recorded[c][1].ratioRG, 1))
        /\ FracEq(stats[c].rbAvg, Frac(recorded[c][1].ratioRB, 1))
        /\ stats[c].standardDeviation.n = 0
        /\ stats[c].standardDeviationRG.n = 0
        /\ stats[c].standardDeviationRB.n = 0

\* the round trip of a copper penny, whose ratios 1.5 and 3.0 differ
C9_Witness ==
    /\ OneRowLoaded("Penny")
    /\ recorded["Penny"][1].ratioRG = 15
    /\ recorded["Penny"][1].ratioRB = 30

\* the files of c hold n > 1 rows, every radius line the same, and a counting
\* frame called coinValues(c)
UniformRadiusLoaded(c) ==
    /\ Called(c)
    /\ Len(files[c].Radius) > 1
    /\ \A k \in Kinds : Len(files[c][k]) = Len(files[c].Radius)
    /\ \A i \in 1..Len(files[c].Radius) : files[c].Radius[i] = files[c].Radius[1]

CalPassed == mode = "cal" /\ blob # <<>> /\ pc # "raised"

MarkerCoins == <<"Dime", "Penny", "Nickel", "Quarter">>

\* C11: a blob whose centre is exactly at the "X" of marker i is assigned to
\* marker i, that is to Dime, Penny, Nickel, Quarter for i = 0, 1, 2, 3, also
\* where the 30% range of a neighbouring marker holds that position.
C11_AtMarkerAssigned ==
    \A i \in 0..3 : (CalPassed /\ blob.pt = MarkerAt(i)) => coin = MarkerCoins[i + 1]

\* a blob on the third "X", which the fourth marker's test accepts as well
C11_Witness ==
    /\ CalPassed
    /\ blob.pt = MarkerAt(2)
    /\ 10 * Abs(blob.pt[1] - MarkerAt(3)[1]) < 3 * MarkerAt(3)[1]
    /\ coin = "Nickel"

\* the squared distance of two points
Dist2(a, b) == (a[1] - b[1]) * (a[1] - b[1]) + (a[2] - b[2]) * (a[2] - b[2])

\* C12: whenever a blob is assigned to a marker, no other of the four markers
\* is nearer to the blob's centre.
C12_NearestMarker ==
    \A i \in 0..3 : (CalPassed /\ coin = MarkerCoins[i + 1]) =>
        \A j \in 0..3 : Dist2(blob.pt, MarkerAt(i)) <= Dist2(blob.pt, MarkerAt(j))

\* a step from here is one pass of the blob loop of CoinCalibration.process;
\* the blob it takes is blob'
CalPass == mode = "cal" /\ pc = "loop"

\* the markers whose 30% test the point passes
MarkersAccepting(pt) ==
    {i \in 0..3 : /\ 10 * Abs(pt[1] - MarkerAt(i)[1]) < 3 * MarkerAt(i)[1]
                  /\ 10 * Abs(pt[2] - MarkerAt(i)[2]) < 3 * MarkerAt(i)[2]}

\* the step appends one line to each of the three files of c, and nothing else
OneRecordAppended(c) ==
    /\ \A k \in Kinds : /\ Len(files'[c][k]) = Len(files[c][k]) + 1
                        /\ IsPrefix(files[c][k], files'[c][k])
    /\ \A d \in Coins \ {c} : files'[d] = files[d]

C14_ZeroMeanRaises ==
    [][/\ (/\ CalPass
           /\ MarkersAccepting(blob'.pt) # {}
           /\ (blob'.colour[2] = 0 \/ blob'.colour[3] = 0))
          => (pc' = "raised" /\ err'.kind = "ZeroDivisionError" /\ files' = files)
       /\ (CountPass /\ blob'.colour[2] = 0)
          => (pc' = "raised" /\ err'.kind = "ZeroDivisionError")]_vars

\* C15: whatever frames raised an error, the dataset holds complete records
\* only: the three files of a denomination have the same number of lines.
C15_CompleteRecords ==
    \A c \in Coins : /\ Len(files[c].RG) = Len(files[c].RB)
                     /\ Len(files[c].RG) = Len(files[c].Radius)

\* of the statistics of a denomination, the mean radius and the mean R:G ratio
MeansOnly(values) == [radiusAvg |-> values.radiusAvg, rgAvg |-> values.rgAvg]

NoFailedAppend ==
    writes = Len(recorded["Dime"]) + Len(recorded["Penny"]) + Len(recorded["Nickel"])
                 + Len(recorded["Quarter"])

\* C18: as long as no append has failed, the three files of every denomination
\* hold the same number of lines, and the RB and Radius means a counting frame
\* computes, dividing by the line count of the RG file, are the sums of those
\* files over their own line counts.
C18_EqualRowCounts ==
    NoFailedAppend =>
        \A c \in Coins :
            /\ Len(files[c].RB) = Len(files[c].RG)
            /\ Len(files[c].Radius) = Len(files[c].RG)
            /\ (mode = "count" /\ stats[c] # <<>>) =>
                   /\ stats[c].rbAvg = Frac(LineSum(files[c].RB), Len(files[c].RB))
                   /\ stats[c].radiusAvg
                          = Frac(LineSum(files[c].Radius), Len(files[c].Radius))

\* two appends to the nickel files, then its statistics computed
C18_Witness ==
    /\ NoFailedAppend
    /\ Len(recorded["Nickel"]) = 2
    /\ mode = "count"
    /\ stats["Nickel"] # <<>>

\* r is at most, at least, the midpoint of the means a < b
AtMostMid(r, a, b) == ~FracGt(FracSub(r, a), FracSub(b, r))
AtLeastMid(r, a, b) == ~FracLt(FracSub(r, a), FracSub(b, r))

\* the denominations whose stretch between the midpoints of adjacent mean
\* radii holds r (two of them at a midpoint)
SwitchPointLetters(r, d0, p0, n0, q0) ==
    {l \in {"D", "P", "N", "Q"} :
        \/ l = "D" /\ AtMostMid(r, d0, p0)
        \/ l = "P" /\ AtLeastMid(r, d0, p0) /\ AtMostMid(r, p0, n0)
        \/ l = "N" /\ AtLeastMid(r, p0, n0) /\ AtMostMid(r, n0, q0)
        \/ l = "Q" /\ AtLeastMid(r, n0, q0)}

\* the mean radius a differs from the penny mean p0 by at least 15% of p0
Apart(a, p0) == 100 * Abs(a.n * p0.d - p0.n * a.d) * p0.d >= 15 * p0.n * a.d * p0.d

\* C19: when the mean radii are ordered dime < penny < nickel < quarter and
\* the dime and the nickel mean each differ from the penny mean by at least
\* 15% of it, a blob is counted as the denomination whose stretch between the
\* midpoints of adjacent means holds its radius, so that the denomination
\* never decreases as the radius grows.
C19_MonotoneInRadius ==
    [][(CountPass /\ HasRatio(blob')) =>
        LET r  == RadiusOf(blob')
            d0 == stats["Dime"].radiusAvg
            p0 == stats["Penny"].radiusAvg
            n0 == stats["Nickel"].radiusAvg
            q0 == stats["Quarter"].radiusAvg
        IN  (/\ FracLt(d0, p0) /\ FracLt(p0, n0) /\ FracLt(n0, q0)
             /\ Apart(d0, p0) /\ Apart(n0, p0)) =>
                \E letter \in SwitchPointLetters(r, d0, p0, n0, q0) : Decided(letter)]_vars

====
